---- MODULE Spec2Model ----
(***************************************************************************)
(* A model of the moize cache engine.                                      *)
(*                                                                         *)
(* Two generations of the engine live in the repository and both are       *)
(* modelled here:                                                          *)
(*   - the list cache of src/src/utils.js: a Cache object holding a        *)
(*     recency-ordered list of {key, value} items whose keys are CacheKey  *)
(*     instances compared by identity (specification Spec);                *)
(*   - the usage-list cache of src/unnamed/part_000: a Map-like fn.cache   *)
(*     and an array fn.usage of raw keys (specification SpecUsage).        *)
(*                                                                         *)
(* JavaScript values are modelled as strings: "1", "2" are the numbers 1   *)
(* and 2, "NaN" is NaN, "undefined" is undefined, "objA" and "objB" are    *)
(* two distinct object instances that both look like {a: 1}.  JavaScript   *)
(* strings (serialized keys) are sequences of one-character strings.       *)
(***************************************************************************)
EXTENDS Integers, Sequences, FiniteSets, TLC

VARIABLES
  options,    \* the Options object: fixed at construction
  last,       \* what the most recent operation was and what it returned
  \* ---- list cache (src/src/utils.js)
  list,       \* cache.list: items {key, value}, index 1 = most recent
  nextId,     \* identity of the next CacheKey instance to be constructed
  timers,     \* pending cache.expireAfter callbacks
  pending,    \* keys whose promise handler has not settled yet
  \* ---- usage-list cache (src/unnamed/part_000)
  fnCache,    \* fn.cache: key -> value, for the keys present
  arrays,     \* the heap of arrays that were ever assigned to fn.usage
  fnUsage,    \* which array of the heap fn.usage currently refers to
  uTimers,    \* pending setExpirationOfCache callbacks
  uPending,   \* promises whose then-callback has not run yet
  uMisses,    \* how many times originalFunction was called
  \* ---- stats (src/unnamed/part_001)
  statsModule \* statsCache, hasWarningDisplayed and the hooks handed out

vars == <<options, last, list, nextId, timers, pending,
          fnCache, arrays, fnUsage, uTimers, uPending, uMisses,
          statsModule>>

listVars == <<list, nextId, timers, pending>>
usageVars == <<fnCache, arrays, fnUsage, uTimers, uPending, uMisses>>

-----------------------------------------------------------------------------
(* Bounds of the model                                                     *)

\* largest maxSize option tried
MaxMaxSize == 2
\* the finite maxAge option tried (in clock ticks)
AgeT == 2
\* number of CacheKey instances (list cache) or of misses (usage cache) in a run
MaxKeys == 3
\* largest maxArgs option tried (0: not configured)
MaxMaxArgs == 2
\* largest number of arguments of a call handed to createGetCacheKey
MaxArgCount == 3

-----------------------------------------------------------------------------
(* JavaScript values                                                       *)

\* Number.POSITIVE_INFINITY, and the "no maxAge" default
INFINITY == 1000

NaN == "NaN"
Undefined == "undefined"

\* names of the own enumerable properties of an object, and the value read at
\* a name (undefined when the object has no such property)
ObjectKeys(object) == DOMAIN object
GetProperty(object, name) ==
  IF name \in DOMAIN object THEN object[name] ELSE Undefined

\* props and context objects handed to a memoized component
ReactProps ==
  {[a |-> "1"], [a |-> Undefined], [b |-> Undefined], [a |-> "1", b |-> Undefined]}
ReactContexts == {[c |-> "1"], [c |-> "2"]}

\* argument tuples passed to the memoized function
ArgTuples ==
  IF options.isReact THEN ReactProps \X ReactContexts
  ELSE IF options.serialize \/ options.equals
  THEN {<<"1">>, <<"objA">>, <<"objB">>}
  ELSE IF options.isPromise \/ options.maxAge < INFINITY THEN {<<"1">>, <<NaN>>}
  ELSE {<<"1">>, <<NaN>>, <<"objA">>, <<"1", NaN>>}

\* reasons a promise can reject with
Reasons == {"E1", "E2"}

\* a === b
StrictEquals(a, b) == a = b /\ a # NaN

\* the elements of array from index (0-based) on, moved down by one
splice(array, index) ==
  IF Len(array) = 0 THEN array
  ELSE [j \in 1..(Len(array) - 1) |->
          IF j < index + 1 THEN array[j] ELSE array[j + 1]]

unshift(array, item) == <<item>> \o array

\* value1 === value2, or both NaN
isEqual(value1, value2) ==
  StrictEquals(value1, value2)
    \/ (~StrictEquals(value1, value1) /\ ~StrictEquals(value2, value2))

isComplexObject(object) == object \in {"objA", "objB"}

\* JSON.stringify of a value: objA and objB are both {a: 1}
jsonStringify(value) ==
  IF isComplexObject(value) THEN <<"{", "\"", "a", "\"", ":", "1", "}">>
  ELSE <<value>>

\* no argument of ArgTuples is cyclic: JSON.stringify does not throw
stringify(value) == jsonStringify(value)

\* a complex object is stringified, anything else is left to the template
\* literal, which writes a primitive as its String() form
getStringifiedArgument(arg) ==
  IF isComplexObject(arg) THEN stringify(arg) ELSE <<arg>>

RECURSIVE serializeFrom(_, _)
serializeFrom(args, index) ==
  IF index > Len(args) THEN <<>>
  ELSE getStringifiedArgument(args[index]) \o <<"|">> \o serializeFrom(args, index + 1)

serializeArguments(args) == <<"|">> \o serializeFrom(args, 1)

\* /^[1-9]\d*$/ on the number written out: a positive integer that is finite
isFiniteAndPositiveInteger(number) == number > 0 /\ number < INFINITY

-----------------------------------------------------------------------------
(* Values the cache stores and operations return                           *)

NoArgs == <<>>

\* what originalFunction returns for args
Result(args) == [kind |-> "result", args |-> args, id |-> 0]
\* a value handed to moized.add by the caller
Manual == [kind |-> "manual", args |-> NoArgs, id |-> 0]
\* value.then(promiseResolver, promiseRejecter) of the miss that made key id
Handler(args, id) == [kind |-> "pending", args |-> args, id |-> id]
\* promiseLibrary.resolve(resolvedValue)
Resolved(args, id) == [kind |-> "resolved", args |-> args, id |-> id]
\* promiseLibrary.reject(exception)
Rejected(reason) == [kind |-> "rejected", args |-> <<reason>>, id |-> 0]
None == [kind |-> "none", args |-> NoArgs, id |-> 0]

Op(name, args, hit, value) ==
  [op |-> name, args |-> args, hit |-> hit, value |-> value]


-----------------------------------------------------------------------------
(* Objects that may refer to themselves, and how they are stringified.     *)
(* A structure is a heap of two objects "n1" (the argument) and "n2"; each *)
(* object has the properties a and b, in that order, whose value is a      *)
(* primitive, one of the two objects, or Absent when the object has no     *)
(* such property.                                                          *)

Absent == "absent"
Nodes == {"n1", "n2"}
Objects ==
  [a : {Absent, "1", Undefined} \cup Nodes, b : {Absent, "1", Undefined} \cup Nodes]
Heaps == [n1 : Objects, n2 : Objects]

\* the objects a property of object refers to
Children(heap, object) == {heap[object].a, heap[object].b} \cap Nodes

\* JSON.stringify(value) throws "Converting circular structure to JSON"
IsCyclic(heap) ==
  \/ "n1" \in Children(heap, "n1")
  \/ /\ "n2" \in Children(heap, "n1")
     /\ Children(heap, "n2") # {}

\* a string written inside a JSON string: each double quote is escaped
RECURSIVE EscapeString(_)
EscapeString(string) ==
  IF string = <<>> THEN <<>>
  ELSE (IF Head(string) = "\"" THEN <<"\\", "\"">> ELSE <<Head(string)>>)
       \o EscapeString(Tail(string))

\* `${path}[${JSON.stringify(name)}]`
PathOf(path, name) == path \o <<"[", "\"", name, "\"", "]">>

\* JSON.stringify({$ref: path})
RefJson(path) ==
  <<"{", "\"", "$", "r", "e", "f", "\"", ":", "\"">>
    \o EscapeString(path) \o <<"\"", "}">>

\* what JSON.stringify writes for a property whose value is undefined
Omitted == <<>>

\* JSON.stringify of an object with the members a and b that are not omitted
ObjectJson(jsonA, jsonB) ==
  <<"{">>
    \o (IF jsonA = Omitted THEN <<>> ELSE <<"\"", "a", "\"", ":">> \o jsonA)
    \o (IF jsonA # Omitted /\ jsonB # Omitted THEN <<",">> ELSE <<>>)
    \o (IF jsonB = Omitted THEN <<>> ELSE <<"\"", "b", "\"", ":">> \o jsonB)
    \o <<"}">>

\* derez(value, path) of decycle, with the objects and paths it has pushed so
\* far (seen); json is JSON.stringify of what derez returns
RECURSIVE derez(_, _, _, _)
derez(heap, value, path, seen) ==
  IF value \in Nodes
  THEN IF \E i \in 1..Len(seen) : seen[i].object = value
       THEN LET index == CHOOSE i \in 1..Len(seen) :
                           /\ seen[i].object = value
                           /\ \A j \in 1..(i - 1) : seen[j].object # value
            IN [json |-> RefJson(seen[index].path), seen |-> seen]
       ELSE LET pushed == Append(seen, [object |-> value, path |-> path])
                memberA == IF heap[value].a = Absent
                           THEN [json |-> Omitted, seen |-> pushed]
                           ELSE derez(heap, heap[value].a, PathOf(path, "a"), pushed)
                memberB == IF heap[value].b = Absent
                           THEN [json |-> Omitted, seen |-> memberA.seen]
                           ELSE derez(heap, heap[value].b, PathOf(path, "b"),
                                      memberA.seen)
            IN [json |-> ObjectJson(memberA.json, memberB.json),
                seen |-> memberB.seen]
  ELSE [json |-> IF value = Undefined THEN Omitted ELSE <<value>>, seen |-> seen]

\* jsonStringify(decycle(object)) for the object "n1" of heap
decycle(heap) == derez(heap, "n1", <<"$">>, <<>>).json

\* JSON.stringify of a structure that is not cyclic
RECURSIVE jsonStringifyObject(_, _)
jsonStringifyObject(heap, value) ==
  IF value \in Nodes
  THEN ObjectJson(
         IF heap[value].a = Absent THEN Omitted
         ELSE jsonStringifyObject(heap, heap[value].a),
         IF heap[value].b = Absent THEN Omitted
         ELSE jsonStringifyObject(heap, heap[value].b))
  ELSE IF value = Undefined THEN Omitted ELSE <<value>>

\* stringify(value) for the object "n1" of heap: JSON.stringify, and decycle
\* when that throws
stringifyObject(heap) ==
  IF IsCyclic(heap) THEN decycle(heap) ELSE jsonStringifyObject(heap, "n1")

-----------------------------------------------------------------------------
(* Options                                                                 *)

\* what options.promiseLibrary can be: its typeof, whether it is truthy, and
\* what its constructor property is
FunctionLibrary == [typeof |-> "function", truthy |-> TRUE, ctor |-> "Function"]
PlainObjectLibrary == [typeof |-> "object", truthy |-> TRUE, ctor |-> "Object"]
PromiseLibraries ==
  {FunctionLibrary, PlainObjectLibrary,
   [typeof |-> "object", truthy |-> TRUE, ctor |-> "Array"],
   [typeof |-> "object", truthy |-> TRUE, ctor |-> "Other"],
   [typeof |-> "object", truthy |-> TRUE, ctor |-> "undefined"],
   [typeof |-> "object", truthy |-> FALSE, ctor |-> "none"],
   [typeof |-> "undefined", truthy |-> FALSE, ctor |-> "none"],
   [typeof |-> "number", truthy |-> TRUE, ctor |-> "Number"],
   [typeof |-> "string", truthy |-> FALSE, ctor |-> "String"]}

\* isFunction(object), isComplexObject(object) and isPlainObject(object) of
\* the list cache
isFunction(object) == object.typeof = "function"
isComplexObjectOfList(object) == object.truthy /\ object.typeof = "object"
isPlainObject(object) == isComplexObjectOfList(object) /\ object.ctor = "Object"

MaxSizes == 1..MaxMaxSize

\* synchronous mode without maxAge: standard keys and serialized keys
OptionsSync ==
  [maxSize : MaxSizes, maxAge : {INFINITY}, isPromise : {FALSE},
   serialize : BOOLEAN, isReact : {FALSE}, equals : {FALSE}, maxArgs : {0}, transformArgs : {FALSE},
   promiseLibrary : {FunctionLibrary}]

\* synchronous mode with maxAge
OptionsAge ==
  [maxSize : MaxSizes, maxAge : {AgeT}, isPromise : {FALSE},
   serialize : {FALSE}, isReact : {FALSE}, equals : {FALSE}, maxArgs : {0}, transformArgs : {FALSE},
   promiseLibrary : {FunctionLibrary}]

\* promise mode
OptionsPromise ==
  [maxSize : MaxSizes, maxAge : {INFINITY}, isPromise : {TRUE},
   serialize : {FALSE}, isReact : {FALSE}, equals : {FALSE}, maxArgs : {0}, transformArgs : {FALSE},
   promiseLibrary : {FunctionLibrary}]

hasMaxAge == isFiniteAndPositiveInteger(options.maxAge)
hasMaxSize == isFiniteAndPositiveInteger(options.maxSize)

\* a memoized component, synchronous, without maxAge
OptionsReact ==
  [maxSize : MaxSizes, maxAge : {INFINITY}, isPromise : {FALSE},
   serialize : {FALSE}, isReact : {TRUE}, equals : {FALSE}, maxArgs : {0}, transformArgs : {FALSE},
   promiseLibrary : {FunctionLibrary}]

-----------------------------------------------------------------------------
(* CacheKey variants.  A key is an instance (id) wrapping what it was      *)
(* constructed from: one argument (single), the argument sequence (multi)  *)
(* or the serialized string (serialized).                                  *)

SingleParameterCacheKey(key, id) ==
  [id |-> id, kind |-> "single",
   key |-> <<IF Len(key) = 0 THEN Undefined ELSE key[1]>>]
MultipleParameterCacheKey(key, id) == [id |-> id, kind |-> "multi", key |-> key]
SerializedCacheKey(key, id) == [id |-> id, kind |-> "serialized", key |-> key]

\* new ReactCacheKey(key): key is [props, context]
ReactCacheKey(key, id) ==
  [id |-> id, kind |-> "react",
   key |-> [context |-> key[2],
            contextSize |-> Cardinality(ObjectKeys(key[2])),
            props |-> key[1],
            propsSize |-> Cardinality(ObjectKeys(key[1]))]]

\* reactCacheKey._isPropShallowEqual(prop, object)
isPropShallowEqual(cacheKey, prop, object) ==
  LET keys == ObjectKeys(object)
      size == IF prop = "props" THEN cacheKey.key.propsSize
              ELSE cacheKey.key.contextSize
      stored == IF prop = "props" THEN cacheKey.key.props
                ELSE cacheKey.key.context
  IN /\ Cardinality(keys) = size
     /\ \A name \in keys :
          StrictEquals(object[name], GetProperty(stored, name))

\* reactCacheKey.matches(key)
ReactCacheKeyMatches(cacheKey, key) ==
  /\ isPropShallowEqual(cacheKey, "props", key[1])
  /\ isPropShallowEqual(cacheKey, "context", key[2])

\* cacheKey.matches(key, isMultiParamKey)
matches(cacheKey, key, isMultiParamKey) ==
  CASE cacheKey.kind = "single" ->
         /\ ~isMultiParamKey
         /\ isEqual(IF Len(key) = 0 THEN Undefined ELSE key[1], cacheKey.key[1])
    [] cacheKey.kind = "multi" ->
         /\ isMultiParamKey
         /\ Len(key) = Len(cacheKey.key)
         /\ \A i \in 1..Len(key) : isEqual(key[i], cacheKey.key[i])
    [] OTHER -> key = cacheKey.key

-----------------------------------------------------------------------------
(* The Cache object: list, with size = list.length and lastItem = list[0]  *)

\* createFindIndex(startingIndex)(list, key): 0-based index of the item whose
\* key is the instance key, from startingIndex on, or -1
createFindIndex(startingIndex, l, key) ==
  LET found == {i \in startingIndex..(Len(l) - 1) : l[i + 1].key.id = key.id}
  IN IF found = {} THEN -1
     ELSE CHOOSE i \in found : \A j \in found : i <= j

findIndex(l, key) == createFindIndex(0, l, key)
findIndexAfterFirst(l, key) == createFindIndex(1, l, key)

CacheHas(l, key) ==
  /\ Len(l) > 0
  /\ (key.id = l[1].key.id \/ findIndexAfterFirst(l, key) # -1)

CacheGet(l, key) ==
  IF findIndex(l, key) = -1 THEN None ELSE l[findIndex(l, key) + 1].value

CacheAdd(l, key, value) == unshift(l, [key |-> key, value |-> value])

CacheUpdate(l, key, value) ==
  IF findIndex(l, key) = -1 THEN l
  ELSE [l EXCEPT ![findIndex(l, key) + 1].value = value]

CacheTouch(l, key) ==
  LET index == findIndex(l, key)
  IN IF index <= 0 THEN l ELSE unshift(splice(l, index), l[index + 1])

CacheRemove(l, key) ==
  IF findIndex(l, key) = -1 THEN l ELSE splice(l, findIndex(l, key))

CacheClear(l) == <<>>

\* cache.expireAfter(key, maxAge): the timers after arming one for key, a
\* timer being the key its callback removes and the delay left before it runs
CacheExpireAfter(ts, key, maxAge) ==
  ts \cup {[key |-> key, delay |-> IF maxAge > 0 THEN maxAge ELSE 0]}

-----------------------------------------------------------------------------
(* Key resolvers                                                           *)

\* 0-based index of the first item from index 1 on whose key matches, or -1
ScanAfterFirst(l, key, isMultiParamKey) ==
  LET found == {i \in 1..(Len(l) - 1) : matches(l[i + 1].key, key, isMultiParamKey)}
  IN IF found = {} THEN -1
     ELSE CHOOSE i \in found : \A j \in found : i <= j

\* a resolver that looks at the most recent item only
getStandardCacheKey_HeadOnly(l, key) ==
  LET isMultiParamKey == Len(key) > 1
  IN IF Len(l) > 0 /\ matches(l[1].key, key, isMultiParamKey) THEN l[1].key
     ELSE IF isMultiParamKey THEN MultipleParameterCacheKey(key, nextId)
     ELSE SingleParameterCacheKey(key, nextId)

getStandardCacheKey(l, key) ==
  LET isMultiParamKey == Len(key) > 1
      index == ScanAfterFirst(l, key, isMultiParamKey)
  IN IF Len(l) > 0 /\ matches(l[1].key, key, isMultiParamKey) THEN l[1].key
     ELSE IF index # -1 THEN l[index + 1].key
     ELSE IF isMultiParamKey THEN MultipleParameterCacheKey(key, nextId)
     ELSE SingleParameterCacheKey(key, nextId)

\* a resolver of serialized keys that looks at the most recent item only
getSerializedCacheKey_HeadOnly(l, key) ==
  IF Len(l) > 0 /\ matches(l[1].key, key, FALSE) THEN l[1].key
  ELSE SerializedCacheKey(key, nextId)

getSerializedCacheKey(l, key) ==
  LET index == ScanAfterFirst(l, key, FALSE)
  IN IF Len(l) > 0 /\ matches(l[1].key, key, FALSE) THEN l[1].key
     ELSE IF index # -1 THEN l[index + 1].key
     ELSE SerializedCacheKey(key, nextId)

\* the most recent item first, then the others in order, else a new key
getReactCacheKey(l, key) ==
  LET found == {i \in 1..(Len(l) - 1) : ReactCacheKeyMatches(l[i + 1].key, key)}
  IN IF Len(l) > 0 /\ ReactCacheKeyMatches(l[1].key, key) THEN l[1].key
     ELSE IF found # {}
     THEN l[(CHOOSE i \in found : \A j \in found : i <= j) + 1].key
     ELSE ReactCacheKey(key, nextId)

\* a TypeError that was thrown
TypeErrorThrown == [kind |-> "TypeError", args |-> NoArgs, id |-> 0]

\* options.equals when it is configured: a deep comparison, for which the two
\* instances of {a: 1} are equal
equals(a, b) == isEqual(a, b) \/ (isComplexObject(a) /\ isComplexObject(b))

\* cacheKey.matchesCustom(key, isMultiParamKey, options.equals)
matchesCustom(cacheKey, key, isMultiParamKey) ==
  CASE cacheKey.kind = "single" ->
         /\ ~isMultiParamKey
         /\ equals(IF Len(key) = 0 THEN Undefined ELSE key[1], cacheKey.key[1])
    [] cacheKey.kind = "multi" ->
         /\ isMultiParamKey
         /\ Len(key) = Len(cacheKey.key)
         /\ \A i \in 1..Len(key) : equals(key[i], cacheKey.key[i])
    [] OTHER -> key = cacheKey.key

\* the key of the first item, the head first, that matchesCustom, or None
FirstCustomMatch(l, key, isMultiParamKey) ==
  LET found == {i \in 1..Len(l) : matchesCustom(l[i].key, key, isMultiParamKey)}
  IN IF found = {} THEN None
     ELSE l[CHOOSE i \in found : \A j \in found : i <= j].key

getStandardCacheKeyCustomEquals(l, key) ==
  LET isMultiParamKey == Len(key) > 1
  IN IF FirstCustomMatch(l, key, isMultiParamKey) # None
     THEN FirstCustomMatch(l, key, isMultiParamKey)
     ELSE IF isMultiParamKey THEN MultipleParameterCacheKey(key, nextId)
     ELSE SingleParameterCacheKey(key, nextId)

getSerializedCacheKeyCustomEquals(l, key) ==
  IF FirstCustomMatch(l, key, FALSE) # None THEN FirstCustomMatch(l, key, FALSE)
  ELSE SerializedCacheKey(key, nextId)

\* a ReactCacheKey has no method matchesCustom: when the cache has an item,
\* the call on the key of the most recent item throws a TypeError
getReactCacheKeyCustomEquals(l, key) ==
  IF Len(l) > 0 THEN TypeErrorThrown ELSE ReactCacheKey(key, nextId)

getGetCacheKeyMethod(l, key) ==
  IF options.isReact
  THEN IF options.equals THEN getReactCacheKeyCustomEquals(l, key)
       ELSE getReactCacheKey(l, key)
  ELSE IF options.serialize
  THEN IF options.equals THEN getSerializedCacheKeyCustomEquals(l, key)
       ELSE getSerializedCacheKey(l, key)
  ELSE IF options.equals THEN getStandardCacheKeyCustomEquals(l, key)
  ELSE getStandardCacheKey(l, key)

\* take(size)(array)
take(size, array) ==
  IF size >= Len(array) THEN array ELSE SubSeq(array, 1, size)

\* options.transformArgs when it is configured: the arguments in reverse order
transformArgs(args) == [i \in 1..Len(args) |-> args[Len(args) + 1 - i]]

\* compose(f, g): a function is the sequence of its stages, the one applied
\* first written first; f(g(x)) applies the stages of g, then those of f
compose(f, g) == g \o f

\* a transform that truncates after the user transform
createTransform_TakeLast(opts) ==
  LET user == IF opts.transformArgs THEN <<"transformArgs">> ELSE <<>>
      taken == IF isFiniteAndPositiveInteger(opts.maxArgs)
               THEN compose(<<"take">>, user)
               ELSE user
  IN IF opts.serialize THEN compose(<<"serializer">>, taken) ELSE taken

\* the transform that createGetCacheKey(cache, options) builds; <<>> when
\* there is none
createTransform(opts) ==
  LET user == IF opts.transformArgs THEN <<"transformArgs">> ELSE <<>>
      taken == IF isFiniteAndPositiveInteger(opts.maxArgs)
               THEN IF user # <<>> THEN compose(user, <<"take">>) ELSE <<"take">>
               ELSE user
  IN IF opts.serialize
     THEN IF taken # <<>> THEN compose(<<"serializer">>, taken)
          ELSE <<"serializer">>
     ELSE taken

\* transform(key)
RECURSIVE applyTransform(_, _, _)
applyTransform(transform, opts, key) ==
  IF transform = <<>> THEN key
  ELSE applyTransform(
         Tail(transform), opts,
         CASE Head(transform) = "take" -> take(opts.maxArgs, key)
           [] Head(transform) = "transformArgs" -> transformArgs(key)
           [] OTHER -> serializeArguments(key))

\* createGetCacheKey(cache, options)(key)
getCacheKey(l, key) ==
  getGetCacheKeyMethod(l, applyTransform(createTransform(options), options, key))

-----------------------------------------------------------------------------
(* createSetNewCachedValue(cache, options)(key, value)                     *)

\* what createSetNewCachedValue(cache, options) does at setup
PromiseClosure == [kind |-> "promiseClosure", args |-> NoArgs, id |-> 0]
SyncClosure == [kind |-> "syncClosure", args |-> NoArgs, id |-> 0]

\* a setup that falls back to the synchronous closure
createSetNewCachedValue_Fallback(opts) ==
  IF opts.isPromise
  THEN IF ~isFunction(opts.promiseLibrary) /\ ~isPlainObject(opts.promiseLibrary)
       THEN SyncClosure
       ELSE PromiseClosure
  ELSE SyncClosure

createSetNewCachedValue(opts) ==
  IF opts.isPromise
  THEN IF ~isFunction(opts.promiseLibrary) /\ ~isPlainObject(opts.promiseLibrary)
       THEN TypeErrorThrown
       ELSE PromiseClosure
  ELSE SyncClosure

\* cache.add, then the size bound: the last item goes when size > maxSize
setNewCachedValue(l, key, value) ==
  LET added == CacheAdd(l, key, value)
  IN IF hasMaxSize /\ Len(added) > options.maxSize
     THEN CacheRemove(added, added[Len(added)].key)
     ELSE added

\* the timers after a miss stored key: only the synchronous closure arms one
setNewCachedValueTimers(ts, key) ==
  IF ~options.isPromise /\ hasMaxAge
  THEN CacheExpireAfter(ts, key, options.maxAge)
  ELSE ts

\* a resolver that also moves the entry to the head
promiseResolverList_Touches(l, key, value) ==
  CacheTouch(CacheUpdate(l, key, value), key)

\* createPromiseResolver(cache, key, hasMaxAge, options)(resolvedValue)
promiseResolverList(l, key, value) == CacheUpdate(l, key, value)
promiseResolverTimers(ts, key) ==
  IF hasMaxAge THEN CacheExpireAfter(ts, key, options.maxAge) ELSE ts

\* a rejecter that leaves the cache alone
promiseRejecterList_KeepsEntry(l, key) == l

\* createPromiseRejecter(cache, key, options)(exception)
promiseRejecterList(l, key) == CacheRemove(l, key)
promiseRejecterResult(exception) == Rejected(exception)

-----------------------------------------------------------------------------
(* Statistics (src/unnamed/part_001)                                       *)

\* how far a counter of a profile is followed
MaxCalls == 2

\* a JavaScript value held in a counter: a number, NaN, or undefined when
\* the property does not exist
JSNumber(n) == [kind |-> "number", n |-> n]
NotANumber == [kind |-> "NaN", n |-> 0]
MissingCount == [kind |-> "undefined", n |-> 0]

\* x++ on a property: a number goes up by one, undefined and NaN become NaN
Increment(c) == IF c.kind = "number" THEN JSNumber(c.n + 1) ELSE NotANumber

\* a + b of the running totals of getStats
Plus(a, b) ==
  IF a.kind = "number" /\ b.kind = "number" THEN JSNumber(a.n + b.n)
  ELSE NotANumber

\* profile names given as options.profileName; Undefined is an options
\* object without one. profiles[undefined] reads the property "undefined".
ProfileNames == {"a", "b"}
\* names that every object literal inherits from Object.prototype
InheritedNames == {"toString"}
ProfileNameOptions == ProfileNames \cup InheritedNames \cup {Undefined}
IsTruthyName(profileName) == profileName # Undefined

\* { calls: 0, hits: 0 }
NewProfile == [calls |-> JSNumber(0), hits |-> JSNumber(0)]

\* the module after loading: statsCache = { isCollectingStats: false,
\* profiles: {} }, hasWarningDisplayed = false; no hooks were handed out and
\* the inherited function object has neither a calls nor a hits property.
\* profiles is a function whose domain is the set of its own keys.
StatsModuleLoaded ==
  [isCollectingStats |-> FALSE,
   profiles |-> [k \in {} |-> NewProfile],
   hasWarningDisplayed |-> FALSE,
   hooks |-> {},
   inherited |-> [calls |-> MissingCount, hits |-> MissingCount]]

InitStatsModule == statsModule = StatsModuleLoaded

\* !!profiles[profileName]: an own property or an inherited one
HasProfile(sm, profileName) ==
  profileName \in DOMAIN sm.profiles \/ profileName \in InheritedNames

\* profiles[profileName], where HasProfile holds
ProfileOf(sm, profileName) ==
  IF profileName \in DOMAIN sm.profiles THEN sm.profiles[profileName]
  ELSE sm.inherited

\* profiles[profileName] = { calls: 0, hits: 0 }
WithNewProfile(sm, profileName) ==
  [sm EXCEPT !.profiles =
     [k \in DOMAIN sm.profiles \cup {profileName} |->
        IF k = profileName THEN NewProfile ELSE sm.profiles[k]]]

\* profiles[profileName].calls++ and, with hit, profiles[profileName].hits++:
\* the object that the lookup finds is the one that is written
WithIncrements(sm, profileName, hit) ==
  LET profile == ProfileOf(sm, profileName)
      counted == [calls |-> Increment(profile.calls),
                  hits |-> IF hit THEN Increment(profile.hits)
                           ELSE profile.hits]
  IN IF profileName \in DOMAIN sm.profiles
     THEN [sm EXCEPT !.profiles[profileName] = counted]
     ELSE [sm EXCEPT !.inherited = counted]

\* the closure of createOnCacheAddIncrementCalls leaves a profile that has a
\* falsy name uncreated and then reads .calls of undefined
OnCacheAddThrows(sm, profileName) ==
  ~IsTruthyName(profileName) /\ ~HasProfile(sm, profileName)

\* the closure returned by createOnCacheAddIncrementCalls(options)
createOnCacheAddIncrementCalls(sm, profileName) ==
  LET created == IF IsTruthyName(profileName) /\ ~HasProfile(sm, profileName)
                 THEN WithNewProfile(sm, profileName) ELSE sm
  IN IF OnCacheAddThrows(sm, profileName) THEN sm
     ELSE WithIncrements(created, profileName, FALSE)

\* the closure returned by createOnCacheHitIncrementCallsAndHits(options)
createOnCacheHitIncrementCallsAndHits(sm, profileName) ==
  LET created == IF ~HasProfile(sm, profileName)
                 THEN WithNewProfile(sm, profileName) ELSE sm
  IN WithIncrements(created, profileName, TRUE)

\* clearStats(profileName): delete acts on own properties only
clearStats(sm, profileName) ==
  IF IsTruthyName(profileName)
  THEN [sm EXCEPT !.profiles =
          [k \in DOMAIN sm.profiles \ {profileName} |-> sm.profiles[k]]]
  ELSE [sm EXCEPT !.profiles = [k \in {} |-> NewProfile]]

\* collectStats(isCollectingStats)
collectStats(sm, isCollectingStats) ==
  [sm EXCEPT !.isCollectingStats = isCollectingStats]

\* getStatsOptions(options): the two hooks, when stats are being collected
getStatsOptions(sm, profileName) ==
  IF sm.isCollectingStats
  THEN [sm EXCEPT !.hooks = @ \cup {profileName}]
  ELSE sm

\* getStats(profileName) for a truthy name, without the usage text
getStatsOf(sm, profileName) ==
  IF ~HasProfile(sm, profileName) THEN NewProfile
  ELSE ProfileOf(sm, profileName)

\* the reduce over Object.keys(statsCache.profiles)
RECURSIVE completeStats(_, _)
completeStats(sm, keys) ==
  IF keys = {} THEN NewProfile
  ELSE LET k == CHOOSE x \in keys : TRUE
           rest == completeStats(sm, keys \ {k})
       IN [calls |-> Plus(rest.calls, sm.profiles[k].calls),
           hits |-> Plus(rest.hits, sm.profiles[k].hits)]

\* getStats(): the totals and the per-profile objects, without the usage text
getStats(sm) ==
  [calls |-> completeStats(sm, DOMAIN sm.profiles).calls,
   hits |-> completeStats(sm, DOMAIN sm.profiles).hits,
   profiles |-> [k \in DOMAIN sm.profiles |-> getStatsOf(sm, k)]]

\* the one-time warning of getStats
getStatsWarns(sm) ==
  [sm EXCEPT !.hasWarningDisplayed =
     @ \/ (~sm.isCollectingStats /\ ~sm.hasWarningDisplayed)]

\* no counter of the profile that a hook is about to count in is at the bound
BelowMaxCalls(sm, profileName) ==
  profileName \in DOMAIN sm.profiles =>
    sm.profiles[profileName].calls.n < MaxCalls

StatsFrame == UNCHANGED <<options>> /\ UNCHANGED listVars /\ UNCHANGED usageVars

CollectStats(isCollectingStats) ==
  /\ statsModule' = collectStats(statsModule, isCollectingStats)
  /\ last' = Op("collectStats", NoArgs, isCollectingStats, None)
  /\ StatsFrame

GetStatsOptions(profileName) ==
  /\ statsModule' = getStatsOptions(statsModule, profileName)
  /\ last' = Op("getStatsOptions", <<profileName>>, FALSE, None)
  /\ StatsFrame

OnCacheAdd(profileName) ==
  /\ profileName \in statsModule.hooks
  /\ BelowMaxCalls(statsModule, profileName)
  /\ statsModule' = createOnCacheAddIncrementCalls(statsModule, profileName)
  /\ last' = Op("onCacheAdd", <<profileName>>, FALSE,
                IF OnCacheAddThrows(statsModule, profileName)
                THEN TypeErrorThrown ELSE None)
  /\ StatsFrame

OnCacheHit(profileName) ==
  /\ profileName \in statsModule.hooks
  /\ BelowMaxCalls(statsModule, profileName)
  /\ statsModule' =
       createOnCacheHitIncrementCallsAndHits(statsModule, profileName)
  /\ last' = Op("onCacheHit", <<profileName>>, TRUE, None)
  /\ StatsFrame

ClearStats(profileName) ==
  /\ statsModule' = clearStats(statsModule, profileName)
  /\ last' = Op("clearStats", <<profileName>>, FALSE, None)
  /\ StatsFrame

GetStats ==
  /\ statsModule' = getStatsWarns(statsModule)
  /\ last' = Op("getStats", NoArgs, FALSE, None)
  /\ StatsFrame

-----------------------------------------------------------------------------
(* The list cache: operations                                              *)

InitCommon ==
  /\ last = Op("init", NoArgs, FALSE, None)
  /\ InitStatsModule

InitList ==
  /\ list = <<>>
  /\ nextId = 1
  /\ timers = {}
  /\ pending = {}

InitUsage ==
  /\ fnCache = {}
  /\ arrays = <<<<>>>>
  /\ fnUsage = 1
  /\ uTimers = {}
  /\ uPending = {}
  /\ uMisses = 0

Init == options \in OptionsSync /\ InitCommon /\ InitList /\ InitUsage

InitAge == options \in OptionsAge /\ InitCommon /\ InitList /\ InitUsage

InitPromise == options \in OptionsPromise /\ InitCommon /\ InitList /\ InitUsage

\* moized(...args): a hit returns the cached value and moves the item to the
\* head; a miss calls originalFunction and stores what it returns
Call(args) ==
  LET key == getCacheKey(list, args)
  IN /\ IF CacheHas(list, key)
        THEN /\ list' = CacheTouch(list, key)
             /\ last' = Op("call", args, TRUE, CacheGet(list, key))
             /\ UNCHANGED <<nextId, timers, pending>>
        ELSE LET value == IF options.isPromise THEN Handler(args, key.id)
                          ELSE Result(args)
             IN /\ nextId <= MaxKeys
                /\ list' = setNewCachedValue(list, key, value)
                /\ timers' = setNewCachedValueTimers(timers, key)
                /\ pending' = IF options.isPromise
                              THEN pending \cup {[key |-> key, args |-> args]}
                              ELSE pending
                /\ nextId' = nextId + 1
                /\ last' = Op("call", args, FALSE, value)
     /\ UNCHANGED <<statsModule, options>>
     /\ UNCHANGED usageVars

\* the promise of a miss resolves: promiseResolver runs
PromiseResolve(p) ==
  /\ pending' = pending \ {p}
  /\ list' = promiseResolverList(list, p.key, Resolved(p.args, p.key.id))
  /\ timers' = promiseResolverTimers(timers, p.key)
  /\ last' = Op("resolve", p.args, CacheHas(list, p.key),
                Resolved(p.args, p.key.id))
  /\ UNCHANGED <<statsModule, options, nextId>>
  /\ UNCHANGED usageVars

\* the promise of a miss rejects: promiseRejecter runs
PromiseReject(p, exception) ==
  /\ pending' = pending \ {p}
  /\ list' = promiseRejecterList(list, p.key)
  /\ last' = Op("reject", p.args, CacheHas(list, p.key),
                promiseRejecterResult(exception))
  /\ UNCHANGED <<statsModule, options, nextId, timers>>
  /\ UNCHANGED usageVars

\* an add that does not look whether the key is cached
Add_Always(args) ==
  LET internalKey == getCacheKey(list, args)
  IN /\ nextId <= MaxKeys
     /\ list' = CacheAdd(list, internalKey, Manual)
     /\ nextId' = nextId + 1
     /\ last' = Op("add", args, CacheHas(list, internalKey), Manual)
     /\ UNCHANGED <<statsModule, options, timers, pending>>
     /\ UNCHANGED usageVars

\* moized.add(key, value)
Add(args) ==
  LET internalKey == getCacheKey(list, args)
  IN /\ IF ~CacheHas(list, internalKey)
        THEN /\ nextId <= MaxKeys
             /\ list' = CacheAdd(list, internalKey, Manual)
             /\ nextId' = nextId + 1
        ELSE UNCHANGED <<list, nextId>>
     /\ last' = Op("add", args, CacheHas(list, internalKey), Manual)
     /\ UNCHANGED <<statsModule, options, timers, pending>>
     /\ UNCHANGED usageVars

\* moized.remove(key)
Remove(args) ==
  LET key == getCacheKey(list, args)
  IN /\ list' = CacheRemove(list, key)
     /\ last' = Op("remove", args, CacheHas(list, key), None)
     /\ UNCHANGED <<statsModule, options, nextId, timers, pending>>
     /\ UNCHANGED usageVars

\* moized.clear()
Clear ==
  /\ list' = CacheClear(list)
  /\ last' = Op("clear", NoArgs, Len(list) > 0, None)
  /\ UNCHANGED <<statsModule, options, nextId, timers, pending>>
  /\ UNCHANGED usageVars

\* a cache.expireAfter callback runs once its delay has passed
Expire(t) ==
  /\ t.delay = 0
  /\ timers' = timers \ {t}
  /\ list' = CacheRemove(list, t.key)
  /\ last' = Op("expire", NoArgs, CacheHas(list, t.key), None)
  /\ UNCHANGED <<statsModule, options, nextId, pending>>
  /\ UNCHANGED usageVars

\* one tick of time passes while callbacks wait: the callbacks that were due
\* have run, the others are one tick closer
Elapse(ts) == {[t EXCEPT !.delay = t.delay - 1] : t \in ts}

Tick ==
  /\ timers # {}
  /\ \A t \in timers : t.delay > 0
  /\ timers' = Elapse(timers)
  /\ last' = Op("tick", NoArgs, FALSE, None)
  /\ UNCHANGED <<statsModule, options, list, nextId, pending>>
  /\ UNCHANGED usageVars

Next ==
  \/ \E args \in ArgTuples : Call(args)
  \/ \E args \in ArgTuples : Add(args)
  \/ \E args \in ArgTuples : Remove(args)
  \/ Clear

\* the list cache, synchronous, without maxAge
Spec == Init /\ [][Next]_vars

\* any options, with any promiseLibrary
OptionsSetup ==
  [maxSize : MaxSizes, maxAge : {AgeT, INFINITY}, isPromise : BOOLEAN,
   serialize : {FALSE}, isReact : {FALSE}, equals : {FALSE}, maxArgs : {0}, transformArgs : {FALSE}, promiseLibrary : PromiseLibraries]

InitSetup == options \in OptionsSetup /\ InitCommon /\ InitList /\ InitUsage

\* moize(fn, options) creates the operation that stores new values
Setup ==
  /\ last.op = "init"
  /\ last' = Op("setup", NoArgs, FALSE, createSetNewCachedValue(options))
  /\ UNCHANGED <<statsModule, options>>
  /\ UNCHANGED listVars
  /\ UNCHANGED usageVars

NextSetup == Setup

\* the setup of the list cache, for every kind of promiseLibrary
SpecSetup == InitSetup /\ [][NextSetup]_vars

\* a structure is chosen and handed to stringify
InitStringify ==
  /\ options \in {o \in OptionsSync : o.serialize /\ o.maxSize = 1}
  /\ \E heap \in Heaps : last = Op("init", <<heap>>, FALSE, None)
  /\ InitStatsModule
  /\ InitList
  /\ InitUsage

Stringify ==
  /\ last.op = "init"
  /\ last' = Op("stringify", last.args, IsCyclic(last.args[1]),
                [kind |-> "string", args |-> stringifyObject(last.args[1]), id |-> 0])
  /\ UNCHANGED <<statsModule, options>>
  /\ UNCHANGED listVars
  /\ UNCHANGED usageVars

\* stringify applied to every structure of Heaps
SpecStringify == InitStringify /\ [][Stringify]_vars

\* the list cache with each of the key resolvers: standard, serialized, react
InitKeys ==
  options \in OptionsSync \cup OptionsReact /\ InitCommon /\ InitList /\ InitUsage

SpecKeys == InitKeys /\ [][Next]_vars

\* every resolver: standard, serialized and react keys, each with and without
\* options.equals
OptionsResolve ==
  [maxSize : MaxSizes, maxAge : {INFINITY}, isPromise : {FALSE},
   serialize : BOOLEAN, isReact : BOOLEAN, equals : BOOLEAN, maxArgs : {0}, transformArgs : {FALSE},
   promiseLibrary : {FunctionLibrary}]

InitResolve ==
  /\ options \in {o \in OptionsResolve :
                    /\ ~(o.isReact /\ o.serialize)
                    /\ o.isReact => o.maxSize = 1}
  /\ InitCommon /\ InitList /\ InitUsage

\* the resolver throws for these options and this cache
ResolverThrows ==
  options.isReact /\ options.equals /\ Len(list) > 0

\* a has that moves the entry it finds to the head
HasKey_Touches(args) ==
  /\ ~ResolverThrows
  /\ list' = CacheTouch(list, getCacheKey(list, args))
  /\ last' = Op("has", args, CacheHas(list, getCacheKey(list, args)), None)
  /\ UNCHANGED <<statsModule, options, nextId, timers, pending>>
  /\ UNCHANGED usageVars

\* moized.has(key): the resolver, then cache.has
HasKey(args) ==
  /\ last' = IF ResolverThrows THEN Op("has", args, FALSE, TypeErrorThrown)
             ELSE Op("has", args, CacheHas(list, getCacheKey(list, args)), None)
  /\ UNCHANGED <<statsModule, options>>
  /\ UNCHANGED listVars
  /\ UNCHANGED usageVars

\* a call of the wrapper in which the resolver throws changes nothing
NextResolve ==
  \/ ~ResolverThrows /\ Next
  \/ \E args \in ArgTuples : HasKey(args)

SpecResolve == InitResolve /\ [][NextResolve]_vars

\* Key derivation of the usage-list cache on values with a type: a value is
\* its typeof and the string the template literal writes for it
KeyValues ==
  {[type |-> "number", text |-> <<"1">>],
   [type |-> "string", text |-> <<"1">>],
   [type |-> "string", text |-> <<"|">>],
   [type |-> "string", text |-> <<"1", "|", "1">>]}

\* argument sequences of up to MaxArgCount of these values
KeyArgs == UNION {[1..n -> KeyValues] : n \in 0..MaxArgCount}

\* the loop of serializeArguments: `${getStringifiedArgument(arg)}|` for each
\* argument
RECURSIVE serializeTexts(_)
serializeTexts(args) ==
  IF args = <<>> THEN <<>>
  ELSE Head(args).text \o <<"|">> \o serializeTexts(Tail(args))

\* getCacheKey(args, serializeArguments): the one argument itself, else the
\* string '|' followed by the serialized arguments
getCacheKeyOf(args) ==
  IF Len(args) = 1 THEN args[1]
  ELSE [type |-> "string", text |-> <<"|">> \o serializeTexts(args)]

InitDeriveKey ==
  /\ options \in {o \in OptionsSync : o.maxSize = 1 /\ ~o.serialize}
  /\ \E args \in KeyArgs : last = Op("init", args, FALSE, None)
  /\ InitStatsModule
  /\ InitList
  /\ InitUsage

\* the key of the arguments is derived; value.args is the key
DeriveKey ==
  /\ last.op = "init"
  /\ last' = Op("key", last.args, FALSE,
                [kind |-> "key", args |-> getCacheKeyOf(last.args), id |-> 0])
  /\ UNCHANGED <<statsModule, options>>
  /\ UNCHANGED listVars
  /\ UNCHANGED usageVars

SpecDeriveKey == InitDeriveKey /\ [][DeriveKey]_vars

\* the options createGetCacheKey reads, in every combination
OptionsGetCacheKey ==
  [maxSize : {1}, maxAge : {INFINITY}, isPromise : {FALSE},
   serialize : BOOLEAN, isReact : {FALSE}, equals : BOOLEAN,
   maxArgs : 0..MaxMaxArgs, transformArgs : BOOLEAN,
   promiseLibrary : {FunctionLibrary}]

\* argument sequences of up to MaxArgCount arguments
ArgSequences ==
  UNION {[1..n -> {"1", "objA"}] : n \in 0..MaxArgCount}

InitGetCacheKey ==
  options \in OptionsGetCacheKey /\ InitCommon /\ InitList /\ InitUsage

\* getCacheKey(args) on the empty cache: value.args is what the key resolver
\* is handed
GetCacheKey(args) ==
  /\ last' = Op("getCacheKey", args, FALSE,
                [kind |-> "key",
                 args |-> applyTransform(createTransform(options), options, args),
                 id |-> getCacheKey(list, args).id])
  /\ UNCHANGED <<statsModule, options>>
  /\ UNCHANGED listVars
  /\ UNCHANGED usageVars

SpecGetCacheKey ==
  InitGetCacheKey /\ [][\E args \in ArgSequences : GetCacheKey(args)]_vars

InitReact == options \in OptionsReact /\ InitCommon /\ InitList /\ InitUsage

\* the list cache of a memoized component
SpecReact == InitReact /\ [][Next]_vars

NextAge ==
  \/ Next
  \/ \E t \in timers : Expire(t)
  \/ Tick

\* the list cache, synchronous, with maxAge
SpecAge == InitAge /\ [][NextAge]_vars

NextPromise ==
  \/ Next
  \/ \E p \in pending : PromiseResolve(p)
  \/ \E p \in pending, exception \in Reasons : PromiseReject(p, exception)

\* the list cache in promise mode
SpecPromise == InitPromise /\ [][NextPromise]_vars

\* promise mode, with and without maxAge
OptionsPromiseAge ==
  [maxSize : MaxSizes, maxAge : {AgeT, INFINITY}, isPromise : {TRUE},
   serialize : {FALSE}, isReact : {FALSE}, equals : {FALSE}, maxArgs : {0}, transformArgs : {FALSE},
   promiseLibrary : {FunctionLibrary}]

InitPromiseAge ==
  options \in OptionsPromiseAge /\ InitCommon /\ InitList /\ InitUsage

NextPromiseAge ==
  \/ NextPromise
  \/ \E t \in timers : Expire(t)
  \/ Tick

\* the list cache in promise mode, with the callbacks of cache.expireAfter
SpecPromiseAge == InitPromiseAge /\ [][NextPromiseAge]_vars

-----------------------------------------------------------------------------
(* The usage-list cache of src/unnamed/part_000: fn.cache is a Map-like     *)
(* object (a set of {key, value} pairs, one per key), fn.usage an array of  *)
(* keys, most recently used first.                                          *)

MapHas(cache, key) == \E e \in cache : e.key = key
MapGet(cache, key) ==
  IF MapHas(cache, key) THEN (CHOOSE e \in cache : e.key = key).value ELSE None
MapDelete(cache, key) == {e \in cache : e.key # key}
MapSet(cache, key, value) ==
  MapDelete(cache, key) \cup {[key |-> key, value |-> value]}

\* array.indexOf(key): 0-based index of the first element === key, or -1; the
\* key that holds NaN is === to nothing, itself included
indexOf(array, key) ==
  LET found == {i \in 0..(Len(array) - 1) :
                  array[i + 1] = key /\ key # <<NaN>>}
  IN IF found = {} THEN -1
     ELSE CHOOSE i \in found : \A j \in found : i <= j

\* getCacheKey(args, serializer)
getUsageCacheKey(args) ==
  IF Len(args) = 1 THEN <<args[1]>> ELSE serializeArguments(args)

\* deleteItemFromCache(cache, usage, key): what it leaves of usage and of cache
deleteItemFromCacheUsage(usage, key) ==
  IF indexOf(usage, key) # -1 THEN splice(usage, indexOf(usage, key)) ELSE usage

deleteItemFromCacheCache(cache, usage, key) ==
  IF indexOf(usage, key) # -1 THEN MapDelete(cache, key) ELSE cache

\* setUsageOrder(fn, key, maxSize): usage before the size bound is applied
setUsageOrderFront(usage, key) ==
  LET index == indexOf(usage, key)
  IN IF index = 0 THEN usage
     ELSE unshift(IF index # -1 THEN splice(usage, index) ELSE usage, key)

\* setUsageOrder(fn, key, maxSize): what it leaves of usage and of cache
setUsageOrderUsage(usage, key, maxSize) ==
  LET front == setUsageOrderFront(usage, key)
  IN IF indexOf(usage, key) # 0 /\ Len(front) > maxSize
     THEN deleteItemFromCacheUsage(front, front[Len(front)])
     ELSE front

setUsageOrderCache(cache, usage, key, maxSize) ==
  LET front == setUsageOrderFront(usage, key)
  IN IF indexOf(usage, key) # 0 /\ Len(front) > maxSize
     THEN deleteItemFromCacheCache(cache, front, front[Len(front)])
     ELSE cache

\* setExpirationOfCache(fn, key, maxAge): the callback keeps the usage array
\* that fn.usage referred to when the timer was set.  Timers that agree on
\* array, key and delay are numbered n = 1, 2, ... so that each one is kept.
SameTimers(ts, t) ==
  {u \in ts : u.usage = t.usage /\ u.key = t.key /\ u.delay = t.delay}

setExpirationOfCache(ts, key, maxAge) ==
  LET t == [usage |-> fnUsage, key |-> key, n |-> 1,
            delay |-> IF maxAge > 0 THEN maxAge ELSE 0]
  IN ts \cup {[t EXCEPT !.n = Cardinality(SameTimers(ts, t)) + 1]}

\* setNewCachedValue(fn, key, value, isPromise, isMaxAgeFinite, maxAge)
setNewCachedValueCache(cache, key, value, isPromise) ==
  IF isPromise THEN cache ELSE MapSet(cache, key, value)

setNewCachedValueUsageTimers(ts, key, isMaxAgeFinite, maxAge) ==
  IF isMaxAgeFinite THEN setExpirationOfCache(ts, key, maxAge) ELSE ts

usage == arrays[fnUsage]

\* keys are raw values (or serialized strings) held in one-element tuples
UsageKeys == {getUsageCacheKey(args) : args \in ArgTuples}

\* the memoized function: the key is moved to the front of fn.usage, a cached
\* value is returned, and otherwise originalFunction is called and its value
\* handed to setNewCachedValue
UCall(args) ==
  LET key == getUsageCacheKey(args)
      hit == MapHas(fnCache, key)
      value == IF options.isPromise THEN Handler(args, uMisses + 1)
               ELSE Result(args)
      cached == IF hit THEN fnCache
                ELSE setNewCachedValueCache(fnCache, key, value, options.isPromise)
  IN /\ Len(usage) <= MaxKeys
     /\ hit \/ uMisses < MaxKeys
     /\ fnCache' = setUsageOrderCache(cached, usage, key, options.maxSize)
     /\ arrays' = [arrays EXCEPT
                     ![fnUsage] = setUsageOrderUsage(usage, key, options.maxSize)]
     /\ uTimers' = IF hit THEN uTimers
                   ELSE setNewCachedValueUsageTimers(
                          uTimers, key, options.maxAge # INFINITY, options.maxAge)
     /\ uPending' = IF ~hit /\ options.isPromise
                    THEN uPending \cup {[key |-> key, args |-> args, id |-> uMisses + 1]}
                    ELSE uPending
     /\ uMisses' = IF hit THEN uMisses ELSE uMisses + 1
     /\ last' = Op("call", args, hit, IF hit THEN MapGet(fnCache, key) ELSE value)
     /\ UNCHANGED <<statsModule, options, fnUsage>>
     /\ UNCHANGED listVars

\* the promise a miss returned resolves: the then-callback of
\* setNewCachedValue stores the resolved value
UPromiseThen(p) ==
  /\ uPending' = uPending \ {p}
  /\ fnCache' = MapSet(fnCache, p.key, Resolved(p.args, p.id))
  /\ last' = Op("resolve", p.args, MapHas(fnCache, p.key), Resolved(p.args, p.id))
  /\ UNCHANGED <<statsModule, options, arrays, fnUsage, uTimers, uMisses>>
  /\ UNCHANGED listVars

\* the promise a miss returned rejects: no callback was registered for that
UPromiseReject(p, exception) ==
  /\ uPending' = uPending \ {p}
  /\ last' = Op("reject", p.args, MapHas(fnCache, p.key), Rejected(exception))
  /\ UNCHANGED <<statsModule, options, fnCache, arrays, fnUsage, uTimers, uMisses>>
  /\ UNCHANGED listVars

\* fn.delete(key)
UDelete(key) ==
  /\ fnCache' = deleteItemFromCacheCache(fnCache, usage, key)
  /\ arrays' = [arrays EXCEPT ![fnUsage] = deleteItemFromCacheUsage(usage, key)]
  /\ last' = Op("remove", key, MapHas(fnCache, key), None)
  /\ UNCHANGED <<statsModule, options, fnUsage, uTimers, uPending, uMisses>>
  /\ UNCHANGED listVars

\* fn.clear(): fn.cache.clear(), and fn.usage becomes a new empty array (an
\* empty array that no callback refers to is replaced by itself: nothing can
\* tell the two apart)
UClear ==
  /\ fnCache' = {}
  /\ IF usage = <<>> /\ \A t \in uTimers : t.usage # fnUsage
     THEN UNCHANGED <<arrays, fnUsage>>
     ELSE /\ arrays' = Append(arrays, <<>>)
          /\ fnUsage' = Len(arrays) + 1
  /\ last' = Op("clear", NoArgs, fnCache # {} \/ usage # <<>>, None)
  /\ UNCHANGED <<statsModule, options, uTimers, uPending, uMisses>>
  /\ UNCHANGED listVars

\* a setExpirationOfCache callback runs once its delay has passed
UExpire(t) ==
  /\ t.delay = 0
  /\ t.n = Cardinality(SameTimers(uTimers, t))
  /\ uTimers' = uTimers \ {t}
  /\ fnCache' = deleteItemFromCacheCache(fnCache, arrays[t.usage], t.key)
  /\ arrays' = [arrays EXCEPT
                  ![t.usage] = deleteItemFromCacheUsage(arrays[t.usage], t.key)]
  /\ last' = Op("expire", t.key, MapHas(fnCache, t.key), None)
  /\ UNCHANGED <<statsModule, options, fnUsage, uPending, uMisses>>
  /\ UNCHANGED listVars

UTick ==
  /\ uTimers # {}
  /\ \A t \in uTimers : t.delay > 0
  /\ uTimers' = Elapse(uTimers)
  /\ last' = Op("tick", NoArgs, FALSE, None)
  /\ UNCHANGED <<statsModule, options, fnCache, arrays, fnUsage, uPending, uMisses>>
  /\ UNCHANGED listVars

OptionsUsage ==
  [maxSize : MaxSizes, maxAge : {AgeT}, isPromise : {FALSE}, serialize : {FALSE}, isReact : {FALSE}, equals : {FALSE}, maxArgs : {0}, transformArgs : {FALSE},
   promiseLibrary : {FunctionLibrary}]

OptionsUsagePromise ==
  [maxSize : MaxSizes, maxAge : {AgeT}, isPromise : {TRUE}, serialize : {FALSE}, isReact : {FALSE}, equals : {FALSE}, maxArgs : {0}, transformArgs : {FALSE},
   promiseLibrary : {FunctionLibrary}]

InitUsageSync == options \in OptionsUsage /\ InitCommon /\ InitList /\ InitUsage

InitUsagePromise ==
  options \in OptionsUsagePromise /\ InitCommon /\ InitList /\ InitUsage

NextUsage ==
  \/ \E args \in ArgTuples : UCall(args)
  \/ \E key \in UsageKeys : UDelete(key)
  \/ UClear
  \/ \E t \in uTimers : UExpire(t)
  \/ UTick

\* the usage-list cache, synchronous, with maxAge
SpecUsage == InitUsageSync /\ [][NextUsage]_vars

NextUsagePromise ==
  \/ \E args \in ArgTuples : UCall(args)
  \/ \E key \in UsageKeys : UDelete(key)
  \/ \E t \in uTimers : UExpire(t)
  \/ UTick
  \/ \E p \in uPending : UPromiseThen(p)
  \/ \E p \in uPending, exception \in Reasons : UPromiseReject(p, exception)

\* the usage-list cache in promise mode, with maxAge
SpecUsagePromise == InitUsagePromise /\ [][NextUsagePromise]_vars

\* the stats module on its own: hooks are handed out and fire in any order
InitStats ==
  /\ options \in {o \in OptionsSync : o.maxSize = 1 /\ ~o.serialize}
  /\ last = Op("init", NoArgs, FALSE, None)
  /\ InitStatsModule
  /\ InitList
  /\ InitUsage

NextStats ==
  \/ \E isCollectingStats \in BOOLEAN : CollectStats(isCollectingStats)
  \/ \E profileName \in ProfileNameOptions : GetStatsOptions(profileName)
  \/ \E profileName \in ProfileNameOptions : OnCacheAdd(profileName)
  \/ \E profileName \in ProfileNameOptions : OnCacheHit(profileName)
  \/ \E profileName \in ProfileNameOptions : ClearStats(profileName)
  \/ GetStats

SpecStats == InitStats /\ [][NextStats]_vars

-----------------------------------------------------------------------------
(* What the inspection surface reports                                     *)

\* moized.has(key)
Has(args) == CacheHas(list, getCacheKey(list, args))

\* moized.keys() and moized.values(): createPluckFromInstanceList
Keys == [i \in 1..Len(list) |-> list[i].key]
\* values listed from the least recent item on
Values_Reversed == [i \in 1..Len(list) |-> list[Len(list) + 1 - i].value]
Values == [i \in 1..Len(list) |-> list[i].value]

\* A and B are matching-equal: under standard keys they have the same length
\* and the same value at every position, NaN being the same value as NaN;
\* under serialized keys they serialize to the same string
MatchingEqual(A, B) ==
  IF options.serialize THEN serializeArguments(A) = serializeArguments(B)
  ELSE Len(A) = Len(B) /\ \A i \in 1..Len(A) : A[i] = B[i]

-----------------------------------------------------------------------------
(* Claims                                                                  *)

\* C1 (usage-list cache): when a miss adds a key to a cache that holds
\* maxSize distinct keys, the least recently used key (the last of fn.usage)
\* is evicted, the other keys stay cached, and fn.usage lists the keys most
\* recent first; so after maxSize + 1 distinct keys k1..k(N+1) has(k1) is false
C1_LruEviction ==
  [][(/\ last'.op = "call"
      /\ ~last'.hit
      /\ Len(usage) = options.maxSize
      /\ \A i, j \in 1..Len(usage) : i # j => usage[i] # usage[j])
     => (/\ ~MapHas(fnCache', usage[Len(usage)])
         /\ \A i \in 1..(Len(usage) - 1) : MapHas(fnCache', usage[i])
         /\ arrays'[fnUsage] =
              <<getUsageCacheKey(last'.args)>> \o SubSeq(usage, 1, Len(usage) - 1))
    ]_vars

\* C2 (list cache): the cache never holds more than maxSize entries
C2_SizeBound == Len(list) <= options.maxSize

\* C3 (list cache): when a call A stored its result and nothing removed it, a
\* call B whose arguments are matching-equal to A's is a hit: it returns the
\* value computed for A and constructs no key, so that the underlying function
\* was invoked once for the two calls
C3_MatchingCallHits ==
  [][\A B \in ArgTuples :
       (/\ last'.op = "call"
        /\ last'.args = B
        /\ \E i \in 1..Len(list) :
             /\ list[i].value.kind = "result"
             /\ MatchingEqual(list[i].value.args, B))
       => (/\ last'.hit
           /\ nextId' = nextId
           /\ last'.value.kind = "result"
           /\ MatchingEqual(last'.value.args, B)
           /\ Len(list') = Len(list))
    ]_vars

\* a call B was answered with the value computed for other, matching-equal
\* arguments A
C3_Witness ==
  /\ last.op = "call"
  /\ last.hit
  /\ last.value.kind = "result"
  /\ last.value.args # last.args

\* C4 (usage-list cache): a miss arms a timer of max(maxAge, 0) for its key, a
\* hit moves no timer, an entry is not expired while a timer armed later for
\* its key is still waiting, and an entry is cached only while a timer for its
\* key is waiting, so that it is gone once maxAge has passed
C4_Expiration ==
  [][/\ (last'.op = "call" /\ ~last'.hit)
          => \E t \in uTimers' \ uTimers :
               /\ t.key = getUsageCacheKey(last'.args)
               /\ t.delay = (IF options.maxAge > 0 THEN options.maxAge ELSE 0)
     /\ (last'.op = "call" /\ last'.hit) => uTimers' = uTimers
     /\ (last'.op = "expire" /\ MapHas(fnCache, last'.args)
           /\ ~MapHas(fnCache', last'.args))
          => ~\E t \in uTimers' : t.key = last'.args /\ t.delay > 0
     /\ \A e \in fnCache' : \E t \in uTimers' : t.key = e.key
    ]_vars

\* C5 (list cache, promise mode): when the promise of a cached entry rejects,
\* that entry is removed, every other entry stays in its place, an identical
\* call would be a miss, and the rejection carries the original reason
C5_RejectionRemoves ==
  [][\A p \in pending, exception \in Reasons :
       PromiseReject(p, exception)
       => (/\ list' = SelectSeq(list, LAMBDA item : item.key.id # p.key.id)
           /\ CacheHas(list, p.key)
                => ~CacheHas(list', getCacheKey(list', p.args))
           /\ last'.value = Rejected(exception))
    ]_vars

\* a cached promise rejected and another entry is still cached
C5_Witness ==
  /\ last.op = "reject"
  /\ last.hit
  /\ Len(list) >= 1

\* C6 (usage-list cache, promise mode): after a miss the cache holds the
\* pending promise it returned under the key, and a call whose key holds a
\* pending promise returns that promise without another invocation
C6_PendingPromiseShared ==
  [][last'.op = "call"
     => LET key == getUsageCacheKey(last'.args)
        IN /\ ~last'.hit => MapGet(fnCache', key) = last'.value
           /\ MapGet(fnCache, key).kind = "pending"
                => (last'.value = MapGet(fnCache, key) /\ uMisses' = uMisses)
    ]_vars

\* C7 (usage-list cache, promise mode): a miss and a rejection arm no timer; a
\* timer is armed when the promise resolves
C7_TimerOnlyOnSettlement ==
  [][/\ (last'.op = "call" /\ ~last'.hit) => uTimers' = uTimers
     /\ last'.op = "reject" => uTimers' = uTimers
     /\ (last'.op = "resolve" /\ last'.hit)
          => \E t \in uTimers' \ uTimers :
               t.key = getUsageCacheKey(last'.args)
    ]_vars

\* C8 (usage-list cache): the callback of a timer changes nothing when a timer
\* armed later for the same key is still waiting, that is when the entry it
\* was armed for was removed and the key was added again
C8_StaleTimerNoOp ==
  [][\A t \in uTimers :
       (/\ last'.op = "expire"
        /\ uTimers' = uTimers \ {t}
        /\ \E t2 \in uTimers :
             t2.key = t.key /\ t2.usage = t.usage /\ t2.delay > 0)
       => (fnCache' = fnCache /\ arrays' = arrays)
    ]_vars

\* C9 (usage-list cache): the callback of a timer that was armed before
\* clear() changes neither the cache nor the current usage list
C9_ClearedTimerNoOp ==
  [][\A t \in uTimers :
       (/\ last'.op = "expire"
        /\ uTimers' = uTimers \ {t}
        /\ t.usage # fnUsage)
       => (fnCache' = fnCache /\ arrays'[fnUsage] = arrays[fnUsage])
    ]_vars

\* C10 (usage-list cache, promise mode): when the key of a pending promise has
\* been removed, the settlement of the promise changes nothing
C10_SettlementAfterRemoval ==
  [][\A p \in uPending :
       (/\ last'.op \in {"resolve", "reject"}
        /\ uPending' = uPending \ {p}
        /\ \A i \in 1..Len(usage) : usage[i] # p.key)
       => (fnCache' = fnCache /\ arrays' = arrays /\ uTimers' = uTimers)
    ]_vars

\* C11 (usage-list cache): no two keys of the recency list fn.usage are equal,
\* NaN counted as equal to NaN
C11_NoDuplicateKeys ==
  \A i, j \in 1..Len(usage) : i # j => usage[i] # usage[j]

\* C12 (list cache): all keys stored in one cache are of the same CacheKey
\* variant
C12_OneVariant ==
  \A i, j \in 1..Len(list) : list[i].key.kind = list[j].key.kind

\* the two objects have the same own property names and identical values
ShallowEqual(object1, object2) ==
  /\ ObjectKeys(object1) = ObjectKeys(object2)
  /\ \A name \in ObjectKeys(object1) :
       StrictEquals(object1[name], object2[name])

\* C13 (list cache of a component): a call [props, context] finds an entry
\* exactly when the cache holds a key whose props and whose context have the
\* same own property names and identical values as the ones passed
C13_ShallowEqualMatch ==
  [][last'.op = "call"
     => (last'.hit
          <=> \E i \in 1..Len(list) :
                /\ ShallowEqual(list[i].key.key.props, last'.args[1])
                /\ ShallowEqual(list[i].key.key.context, last'.args[2]))
    ]_vars

\* C14 (setup of the list cache): with isPromise and a promiseLibrary that is
\* neither a function nor a plain object the setup throws a TypeError, nothing
\* is cached, and no store operation is returned
C14_InvalidPromiseLibraryThrows ==
  (/\ last.op = "setup"
   /\ options.isPromise
   /\ options.promiseLibrary \notin {FunctionLibrary, PlainObjectLibrary})
  => (/\ last.value = TypeErrorThrown
      /\ list = <<>>
      /\ fnCache = {})

\* a setup in promise mode with an array as promiseLibrary has thrown
C14_Witness ==
  /\ last.op = "setup"
  /\ options.isPromise
  /\ options.promiseLibrary.ctor = "Array"
  /\ last.value.kind = "TypeError"

\* the item was stored for arguments matching-equal to args: its key wraps
\* what the resolver makes of args
ItemIsFor(item, args) ==
  IF options.serialize THEN item.key.key = serializeArguments(args)
  ELSE item.key.key = args

\* C15 (list cache): moized.add(args, value) leaves the cache as it is when an
\* entry for args exists; otherwise it puts one new entry holding value at the
\* head, in front of the entries that were there
C15_AddFrame ==
  [][\A args \in ArgTuples :
       (last'.op = "add" /\ last'.args = args)
       => IF \E i \in 1..Len(list) : ItemIsFor(list[i], args)
          THEN list' = list
          ELSE /\ Len(list') = Len(list) + 1
               /\ list'[1].value = Manual
               /\ ItemIsFor(list'[1], args)
               /\ SubSeq(list', 2, Len(list')) = list
    ]_vars

\* an add put a new entry in front of another one
C15_Witness ==
  /\ last.op = "add"
  /\ ~last.hit
  /\ Len(list) >= 2
  /\ list[1].value = Manual

\* C16 (list cache): keys() and values() are as long as the cache is large,
\* keys()[i] and values()[i] are the key and the value of the same entry, and
\* index 0 is the entry that the last call or add has just used
C16_KeysValuesAligned ==
  /\ Len(Keys) = Len(list)
  /\ Len(Values) = Len(list)
  /\ \A i \in 1..Len(list) : [key |-> Keys[i], value |-> Values[i]] = list[i]
  /\ (last.op = "call" \/ (last.op = "add" /\ ~last.hit))
       => (/\ Len(Keys) >= 1
           /\ ItemIsFor([key |-> Keys[1]], last.args)
           /\ Values[1] = last.value)

\* a hit was answered while two entries with different values are listed
C16_Witness ==
  /\ last.op = "call"
  /\ last.hit
  /\ Len(Keys) = 2
  /\ Keys[1] # Keys[2]
  /\ Values[1] # Values[2]

\* C17 (list cache, serialized keys): when an entry was stored by a call with
\* A, the resolver given any A2 with the same serialized form as A returns the
\* key of that entry, not a new key
C17_SameSerializedFormSameKey ==
  options.serialize
  => \A i \in 1..Len(list), A2 \in ArgTuples :
       (/\ list[i].value.kind = "result"
        /\ serializeArguments(list[i].value.args) = serializeArguments(A2))
       => (/\ getCacheKey(list, A2) = list[i].key
           /\ getCacheKey(list, A2).id < nextId)

\* an entry stored for one instance of {a: 1} is behind another entry, and
\* the resolver returns its key for the other instance of {a: 1}
C17_Witness ==
  /\ options.serialize
  /\ Len(list) = 2
  /\ list[2].value = Result(<<"objA">>)
  /\ getCacheKey(list, <<"objB">>).id = list[2].key.id

\* the structure as seen from the argument "n1": an object that "n1" does not
\* reach is no part of it
Structure(heap) ==
  IF "n2" \in Children(heap, "n1") THEN heap
  ELSE [heap EXCEPT !.n2 = [a |-> Absent, b |-> Absent]]

\* the string holds a $ref marker
HasRef(string) ==
  \E i \in 1..(Len(string) - 3) :
    SubSeq(string, i, i + 3) = <<"$", "r", "e", "f">>

\* C18 (stringify of a structure that refers to itself): the result is a
\* string that holds a $ref marker, and no structurally different
\* self-referring structure is given the same string
C18_DecycleDistinguishes ==
  (last.op = "stringify" /\ IsCyclic(last.args[1]))
  => (/\ last.value.kind = "string"
      /\ HasRef(last.value.args)
      /\ \A heap \in Heaps :
           (IsCyclic(heap) /\ Structure(heap) # Structure(last.args[1]))
           => stringifyObject(heap) # last.value.args)

\* C19 (usage-list cache): the key NaN is found like any other key: a call
\* with NaN while NaN is cached is a hit that leaves NaN once in fn.usage, at
\* the front, and removing NaN while it is cached takes it out of the cache
\* and out of fn.usage
C19_NaNKeyLocated ==
  [][/\ (last'.op = "call" /\ last'.args = <<NaN>> /\ MapHas(fnCache, <<NaN>>))
          => (/\ last'.hit
              /\ \A i \in 1..Len(arrays'[fnUsage]) :
                   arrays'[fnUsage][i] = <<NaN>> <=> i = 1)
     /\ (last'.op = "remove" /\ last'.args = <<NaN>> /\ MapHas(fnCache, <<NaN>>))
          => (/\ ~MapHas(fnCache', <<NaN>>)
              /\ \A i \in 1..Len(arrays'[fnUsage]) :
                   arrays'[fnUsage][i] # <<NaN>>)
    ]_vars

\* s is t with some of its elements taken out
RECURSIVE IsSubsequence(_, _)
IsSubsequence(s, t) ==
  IF s = <<>> THEN TRUE
  ELSE IF t = <<>> THEN FALSE
  ELSE IF Head(s) = Head(t) THEN IsSubsequence(Tail(s), Tail(t))
  ELSE IsSubsequence(s, Tail(t))

\* C20 (usage-list cache): fn.usage is ordered by last use: a call puts its
\* key first and leaves the other keys in the order they had, without that
\* key; a removal, an eviction and an expiration take keys out and leave the
\* others in the order they had
C20_RecencyOrder ==
  [][/\ last'.op = "call"
          => LET key == getUsageCacheKey(last'.args)
             IN /\ Len(arrays'[fnUsage]) >= 1
                /\ arrays'[fnUsage][1] = key
                /\ IsSubsequence(Tail(arrays'[fnUsage]),
                                 SelectSeq(usage, LAMBDA k : k # key))
     /\ last'.op \in {"remove", "expire"}
          => IsSubsequence(arrays'[fnUsage], usage)
    ]_vars

\* C21 (usage-list cache): a hit on a key that is in fn.usage at an index
\* i > 0 takes the key out at i and puts it first: the other keys keep their
\* order and the number of keys stays the same
C21_HitMovesToFront ==
  [][\A i \in 2..Len(usage) :
       (/\ last'.op = "call"
        /\ last'.hit
        /\ usage[i] = getUsageCacheKey(last'.args)
        /\ \A j \in 1..(i - 1) : usage[j] # usage[i])
       => arrays'[fnUsage] = <<usage[i]>> \o splice(usage, i - 1)
    ]_vars

\* C22 (usage-list cache): a hit on the key that is first in fn.usage changes
\* neither fn.usage nor the cached values
C22_HeadTouchNoOp ==
  [][(/\ last'.op = "call"
      /\ last'.hit
      /\ Len(usage) >= 1
      /\ usage[1] = getUsageCacheKey(last'.args))
     => (arrays' = arrays /\ fnCache' = fnCache)
    ]_vars

\* C23 (list cache, promise mode): when the promise of a cached entry
\* resolves, the value of that entry becomes the settled value and the list is
\* otherwise the same (same entries, same places); one timer is armed for the
\* key when maxAge is configured, and none otherwise
C23_ResolverUpdatesInPlace ==
  [][\A p \in pending :
       (PromiseResolve(p) /\ CacheHas(list, p.key))
       => (/\ list' = [list EXCEPT ![findIndex(list, p.key) + 1].value =
                                     Resolved(p.args, p.key.id)]
           /\ hasMaxAge
                => /\ Cardinality(timers' \ timers) = 1
                   /\ \A t \in timers' \ timers : t.key = p.key
           /\ ~hasMaxAge => timers' = timers)
    ]_vars

\* a promise resolved for an entry that is cached behind another entry, with
\* maxAge configured
C23_Witness ==
  /\ last.op = "resolve"
  /\ last.hit
  /\ hasMaxAge
  /\ Len(list) >= 2
  /\ list[2].value = last.value

\* what createGetCacheKey hands to the resolver for the arguments args
TransformedKey(args) == IF options.serialize THEN serializeArguments(args) ELSE args

\* cacheKey.matches for the variant the options configure
KeyMatches(cacheKey, key) ==
  IF options.isReact THEN ReactCacheKeyMatches(cacheKey, key)
  ELSE matches(cacheKey, key, Len(key) > 1)

\* the places of the entries whose key matches the arguments args
MatchingPlaces(args) ==
  {i \in 1..Len(list) : KeyMatches(list[i].key, TransformedKey(args))}

\* C24 (list cache): for any arguments the resolver returns the key of the
\* first entry, in list order, whose key matches them, and when no entry
\* matches a new key that is the key of no entry
C24_ResolverFirstMatch ==
  \A args \in ArgTuples :
    IF MatchingPlaces(args) # {}
    THEN \E i \in MatchingPlaces(args) :
           /\ \A j \in MatchingPlaces(args) : i <= j
           /\ getCacheKey(list, args) = list[i].key
    ELSE \A i \in 1..Len(list) : list[i].key.id # getCacheKey(list, args).id

\* after a call, some arguments match an entry behind the head and others
\* match no entry
C24_Witness ==
  /\ last.op = "call"
  /\ \E args \in ArgTuples :
       MatchingPlaces(args) # {} /\ 1 \notin MatchingPlaces(args)
  /\ \E args \in ArgTuples : MatchingPlaces(args) = {}

\* C25 (list cache): a resolver, with or without options.equals, changes
\* nothing of the cache: after moized.has, which runs the resolver and looks
\* the key up, the list holds the same entries with the same values in the
\* same order, whether an entry was found or not
C25_ResolverLeavesCache ==
  [][last'.op = "has" => (list' = list /\ timers' = timers)]_vars

\* has found an entry behind the head, with options.equals configured
C25_Witness ==
  /\ last.op = "has"
  /\ last.hit
  /\ options.equals
  /\ Len(list) >= 2
  /\ getCacheKey(list, last.args).id # list[1].key.id

\* C26 (createGetCacheKey): the key resolver is handed the arguments
\* truncated to maxArgs first, passed through transformArgs second and
\* serialized last, each stage only when it is configured, with and without
\* options.equals
C26_TransformOrder ==
  last.op = "getCacheKey"
  => LET taken == IF isFiniteAndPositiveInteger(options.maxArgs)
                  THEN take(options.maxArgs, last.args)
                  ELSE last.args
         transformed == IF options.transformArgs THEN transformArgs(taken)
                        ELSE taken
     IN last.value.args = (IF options.serialize
                           THEN serializeArguments(transformed)
                           ELSE transformed)

\* the three stages are configured and another order of truncation and
\* transform would have handed over other arguments
C26_Witness ==
  /\ last.op = "getCacheKey"
  /\ isFiniteAndPositiveInteger(options.maxArgs)
  /\ options.transformArgs
  /\ options.serialize
  /\ options.equals
  /\ last.value.args #
       serializeArguments(take(options.maxArgs, transformArgs(last.args)))

\* C27 (list cache, maxAge configured): every entry of the cache has a timer
\* waiting for its key, whether it came from a miss or from moized.add, so
\* that no entry stays cached forever
C27_EveryEntryExpires ==
  hasMaxAge
  => \A i \in 1..Len(list) : \E t \in timers : t.key.id = list[i].key.id

\* C28 (usage-list cache): the keys listed in fn.usage are the keys cached in
\* fn.cache
C28_UsageMatchesCache ==
  {usage[i] : i \in 1..Len(usage)} = {e.key : e \in fnCache}

\* C29 (usage-list cache): argument sequences that differ in length, or in
\* the value or the type of an argument, are never given the same key
C29_KeyInjective ==
  last.op = "key"
  => \A args \in KeyArgs :
       args # last.args => getCacheKeyOf(args) # last.value.args

\* C30 (usage-list cache): fn.delete(key) takes the entry of a cached key out
\* of fn.cache and the key out of fn.usage, the other entries and the order of
\* the other keys staying as they were; for a key that is not cached it
\* changes neither fn.cache nor fn.usage
C30_RemoveExactlyOne ==
  [][last'.op = "remove"
     => IF MapHas(fnCache, last'.args)
        THEN /\ fnCache' = MapDelete(fnCache, last'.args)
             /\ arrays'[fnUsage] = SelectSeq(usage, LAMBDA k : k # last'.args)
        ELSE fnCache' = fnCache /\ arrays' = arrays
    ]_vars

\* the names a profile can be kept under
StatsKeys == ProfileNames \cup InheritedNames \cup {Undefined}

\* the profiles there are: the names under which a hook has counted since
\* the last clearStats that covers them
Profiled(sm) ==
  DOMAIN sm.profiles
    \cup {k \in InheritedNames : sm.inherited.calls.kind # "undefined"}

\* what getStats(k) reports is a pair of numbers with 0 <= hits <= calls
CountsInOrder(sm, k) ==
  LET stats == getStatsOf(sm, k)
  IN /\ stats.calls.kind = "number" /\ stats.hits.kind = "number"
     /\ 0 <= stats.hits.n /\ stats.hits.n <= stats.calls.n

\* from sm to next, getStats(k) goes up by byCalls calls and byHits hits
CountsRaised(sm, next, k, byCalls, byHits) ==
  LET before == getStatsOf(sm, k)
      after == getStatsOf(next, k)
  IN /\ before.calls.kind = "number" /\ after.calls.kind = "number"
     /\ before.hits.kind = "number" /\ after.hits.kind = "number"
     /\ after.calls.n = before.calls.n + byCalls
     /\ after.hits.n = before.hits.n + byHits

\* the sum of what getStats(k) reports, over a set of names
RECURSIVE SumOfStats(_, _)
SumOfStats(sm, keys) ==
  IF keys = {} THEN NewProfile
  ELSE LET k == CHOOSE x \in keys : TRUE
           rest == SumOfStats(sm, keys \ {k})
       IN [calls |-> Plus(getStatsOf(sm, k).calls, rest.calls),
           hits |-> Plus(getStatsOf(sm, k).hits, rest.hits)]

\* across a step, getStats(k) goes up as given and no other name's stats move
OnlyRaised(k, byCalls, byHits) ==
  /\ CountsRaised(statsModule, statsModule', k, byCalls, byHits)
  /\ \A other \in StatsKeys \ {k} :
       getStatsOf(statsModule', other) = getStatsOf(statsModule, other)

\* C31 (stats): whatever the order of add hooks, hit hooks, clearStats and
\* collectStats, every profile reports 0 <= hits <= calls; the add hook of a
\* profile raises its calls by one and nothing else, its hit hook raises its
\* calls and its hits by one each and nothing else; and the calls and hits
\* that getStats() reports are the sums over all profiles
C31_StatsCounters ==
  /\ [](\A k \in Profiled(statsModule) : CountsInOrder(statsModule, k))
  /\ [](getStats(statsModule).calls =
          SumOfStats(statsModule, Profiled(statsModule)).calls)
  /\ [](getStats(statsModule).hits =
          SumOfStats(statsModule, Profiled(statsModule)).hits)
  /\ [][(last'.op = "onCacheAdd" => OnlyRaised(last'.args[1], 1, 0))
        /\ (last'.op = "onCacheHit" => OnlyRaised(last'.args[1], 1, 1))]_vars

====
